---- MODULE Spec2Model ----
(***************************************************************************)
(* State-machine model of src/BloomFilter.py: the class BloomFilter, its   *)
(* constructor (with __bitsNeeded), insert, find, falsePositiveRate and    *)
(* numBitsSet.                                                             *)
(*                                                                         *)
(* Spec      one filter, callers run one operation at a time               *)
(* SpecConc  one constructed filter shared by two threads, each running    *)
(*           insert once, interleaved between the statements of insert     *)
(*                                                                         *)
(* Reals are kept exact: maxFalsePositive and the value returned by        *)
(* falsePositiveRate are fractions <<numerator, denominator>>.             *)
(***************************************************************************)
EXTENDS Integers, FiniteSets, Sequences, TLC

\* ------------------------------------------------------------------ bounds
\* BitHash returns a value in 0..MaxHash (the seeds it is fed are 0 and its
\* own earlier results).
MaxHash == 2
\* Constructor arguments numKeys and numHashes are drawn from 0..Max.
MaxNumKeys == 2
MaxNumHashes == 2

\* The keys callers insert and look up (words of the word list).
Keys == {"ant", "bee"}
\* The maxFalsePositive arguments tried, as fractions: 0, 1/2, 3/4, 1.
Rates == {<<0, 1>>, <<1, 2>>, <<3, 4>>, <<1, 1>>}
\* The threads of SpecConc.
Threads == {"t1", "t2"}

VARIABLES
    hashTab,           \* the function BitHash computes: key -> seed -> value
    status,            \* "new" (not constructed), "ready", "failed"
    error,             \* the exception __init__ raised, or "none"
    numKeys,           \* self.__numKeys
    numHashes,         \* self.__numHashes
    maxFalsePositive,  \* self.__maxFalsePositive, a fraction
    numBits,           \* self.__numBits
    BitVector,         \* self.__BitVector: 0..numBits-1 -> {0,1}
    bitsSet,           \* self.__bitsSet
    inserted,          \* history: keys whose insert has returned
    lastOp,            \* history: the operation that ran last
    lastKey,           \* history: its key argument ("" when it has none)
    wasPresent,        \* history: lastKey had been inserted before the last op
    ret,               \* the value the last operation returned
    pc,                \* SpecConc: each thread's position in insert
    key,               \* SpecConc: insert's argument, per thread
    i,                 \* SpecConc: insert's loop counter, per thread
    hashLevel,         \* SpecConc: insert's local hashLevel, per thread
    placeHolder,       \* SpecConc: insert's local placeHolder, per thread
    reg                \* SpecConc: the value of bitsSet read by `+= 1`

filterVars == <<numKeys, numHashes, maxFalsePositive, numBits, BitVector, bitsSet>>
histVars == <<inserted, lastOp, lastKey, wasPresent, ret>>
threadVars == <<pc, key, i, hashLevel, placeHolder, reg>>
vars == <<hashTab, status, error, filterVars, histVars, threadVars>>

\* ---------------------------------------------------------------- BitHash
Seeds == 0..MaxHash

\* The seeds BitHash is called with for one key in `rounds` rounds of the
\* chain that starts at seed s, when t is the key's seed -> value table.
RECURSIVE Consulted(_, _, _)
Consulted(t, s, rounds) ==
    IF rounds = 0 THEN {} ELSE {s} \cup Consulted(t, t[s], rounds - 1)

\* Every deterministic seed -> value table, up to the entries that no chain
\* of at most MaxNumHashes rounds consults (those are fixed to 0).
KeyTabs ==
    {t \in [Seeds -> Seeds] :
        \A s \in Seeds \ Consulted(t, 0, MaxNumHashes) : t[s] = 0}

HashTabs == [Keys -> KeyTabs]

BitHash(k, seed) == hashTab[k][seed]

\* ------------------------------------------------------------ __bitsNeeded
RECURSIVE Pow(_, _)
Pow(x, n) == IF n = 0 THEN 1 ELSE x * Pow(x, n - 1)

\* ceil(d / (1 - phi^(1/n))) with phi = 1 - (a/b)^(1/d), for 0 < a/b <= 1:
\* the least N >= d with N * (1 - phi^(1/n)) >= d, which in integers reads
\* b * (N^n - (N-d)^n)^d <= a * N^(n*d).
RECURSIVE leastBits(_, _, _, _, _)
leastBits(n, d, a, b, N) ==
    IF b * Pow(Pow(N, n) - Pow(N - d, n), d) <= a * Pow(N, n * d)
    THEN N
    ELSE leastBits(n, d, a, b, N + 1)

\* The outcome of __bitsNeeded: the exception it raises, or the value.
bitsNeeded(n, d, P) ==
    IF d = 0 THEN [exc |-> "ZeroDivisionError", val |-> 0]      \* 1 / numHashes
    ELSE IF n = 0 THEN [exc |-> "ZeroDivisionError", val |-> 0] \* 1 / numKeys
    ELSE IF P[1] = 0 THEN [exc |-> "ZeroDivisionError", val |-> 0]
                                       \* phi = 1: numHashes / (1 - 1)
    ELSE [exc |-> "none", val |-> leastBits(n, d, P[1], P[2], d)]

\* ------------------------------------------------------------------- Init
noThreads ==
    /\ pc = [t \in Threads |-> "idle"]
    /\ key = [t \in Threads |-> ""]
    /\ i = [t \in Threads |-> 0]
    /\ hashLevel = [t \in Threads |-> 0]
    /\ placeHolder = [t \in Threads |-> 0]
    /\ reg = [t \in Threads |-> 0]

noHistory ==
    /\ inserted = {}
    /\ lastOp = "none"
    /\ lastKey = ""
    /\ wasPresent = FALSE
    /\ ret = "None"

Init ==
    /\ hashTab \in HashTabs
    /\ status = "new"
    /\ error = "none"
    /\ numKeys = 0
    /\ numHashes = 0
    /\ maxFalsePositive = <<0, 1>>
    /\ numBits = 0
    /\ BitVector = <<>>
    /\ bitsSet = 0
    /\ noHistory
    /\ noThreads

\* --------------------------------------------------------------- __init__
Construct(n, d, P) ==
    /\ status = "new"
    /\ numKeys' = n
    /\ numHashes' = d
    /\ maxFalsePositive' = P
    /\ LET r == bitsNeeded(n, d, P) IN
         IF r.exc = "none"
         THEN /\ numBits' = r.val
              /\ BitVector' = [b \in 0..(r.val - 1) |-> 0]
              /\ status' = "ready"
              /\ error' = "none"
         ELSE /\ numBits' = 0
              /\ BitVector' = <<>>
              /\ status' = "failed"
              /\ error' = r.exc
    /\ bitsSet' = 0
    /\ lastOp' = "init"
    /\ lastKey' = ""
    /\ ret' = "None"
    /\ UNCHANGED <<hashTab, inserted, wasPresent, threadVars>>

\* ----------------------------------------------------------------- insert
\* Variants of the loop body of insert carrying one slip each: the counter
\* is not kept; the counter goes down on a bit already set; the bit is
\* counted but left unset; a bit already set is cleared and uncounted.
insertStepNoCount(bv, cnt, p) ==
    IF bv[p] = 0 THEN <<[bv EXCEPT ![p] = 1], cnt>> ELSE <<bv, cnt>>

insertStepCountDown(bv, cnt, p) ==
    IF bv[p] = 0 THEN <<[bv EXCEPT ![p] = 1], cnt + 1>> ELSE <<bv, cnt - 1>>

insertStepNoSet(bv, cnt, p) ==
    IF bv[p] = 0 THEN <<bv, cnt + 1>> ELSE <<bv, cnt>>

insertStepClear(bv, cnt, p) ==
    IF bv[p] = 0 THEN <<[bv EXCEPT ![p] = 1], cnt + 1>>
                 ELSE <<[bv EXCEPT ![p] = 0], cnt - 1>>

\* Lines 55-59: the bit at placeHolder is set and counted if it is not set.
insertStep(bv, cnt, p) ==
    IF bv[p] = 0 THEN <<[bv EXCEPT ![p] = 1], cnt + 1>> ELSE <<bv, cnt>>

\* Lines 45-59: the loop of insert from round n on, with local hashLevel h,
\* on bit vector bv and counter cnt; the result is <<bit vector, counter>>.
RECURSIVE insertLoop(_, _, _, _, _)
insertLoop(k, n, h, bv, cnt) ==
    IF n >= numHashes THEN <<bv, cnt>>
    ELSE LET h2 == BitHash(k, h)
             s == insertStep(bv, cnt, h2 % numBits)
         IN insertLoop(k, n + 1, h2, s[1], s[2])

Insert(k) ==
    /\ status = "ready"
    /\ LET s == insertLoop(k, 0, 0, BitVector, bitsSet) IN
         /\ BitVector' = s[1]
         /\ bitsSet' = s[2]
    /\ inserted' = inserted \cup {k}
    /\ wasPresent' = (k \in inserted)
    /\ lastOp' = "insert"
    /\ lastKey' = k
    /\ ret' = "None"
    /\ UNCHANGED <<hashTab, status, error, numKeys, numHashes,
                   maxFalsePositive, numBits, threadVars>>

\* ------------------------------------------------------------------- find
\* Variants of the loop of find carrying one slip each: the loop counter is
\* used as the seed; only the last round's bit decides.
RECURSIVE findLoopSeedIsRound(_, _, _)
findLoopSeedIsRound(k, n, h) ==
    IF n >= numHashes THEN TRUE
    ELSE LET h2 == BitHash(k, n) IN
         IF BitVector[h2 % numBits] = 0 THEN FALSE
         ELSE findLoopSeedIsRound(k, n + 1, h2)

RECURSIVE findLoopLastOnly(_, _, _)
findLoopLastOnly(k, n, h) ==
    IF n >= numHashes THEN TRUE
    ELSE LET h2 == BitHash(k, h) IN
         IF n = numHashes - 1 THEN BitVector[h2 % numBits] # 0
         ELSE findLoopLastOnly(k, n + 1, h2)

\* Lines 66-77: the loop of find from round n on, with local hashLevel h.
RECURSIVE findLoop(_, _, _)
findLoop(k, n, h) ==
    IF n >= numHashes THEN TRUE
    ELSE LET h2 == BitHash(k, h) IN
         IF BitVector[h2 % numBits] = 0 THEN FALSE
         ELSE findLoop(k, n + 1, h2)

\* A find that sets the bits it looks at.
FindSetting(k) ==
    /\ status = "ready"
    /\ ret' = findLoop(k, 0, 0)
    /\ BitVector' = insertLoop(k, 0, 0, BitVector, bitsSet)[1]
    /\ lastOp' = "find"
    /\ lastKey' = k
    /\ wasPresent' = (k \in inserted)
    /\ UNCHANGED <<hashTab, status, error, numKeys, numHashes, maxFalsePositive,
                   numBits, bitsSet, inserted, threadVars>>

Find(k) ==
    /\ status = "ready"
    /\ ret' = findLoop(k, 0, 0)
    /\ lastOp' = "find"
    /\ lastKey' = k
    /\ wasPresent' = (k \in inserted)
    /\ UNCHANGED <<hashTab, status, error, filterVars, inserted, threadVars>>

\* ------------------------------------------------------ falsePositiveRate
\* The estimate with the `1 -` of line 96 left out.
rateOfZeros(nb, cnt, d) == <<Pow(nb - cnt, d), Pow(nb, d)>>

\* Lines 89-96 on numBits nb, bitsSet cnt and numHashes d:
\* (1 - zeros / nb) ^ d, as a fraction.
rateOf(nb, cnt, d) ==
    LET zeros == nb - cnt
        proportionZeros == <<zeros, nb>>
    IN <<Pow(proportionZeros[2] - proportionZeros[1], d),
         Pow(proportionZeros[2], d)>>

falsePositiveRate == rateOf(numBits, bitsSet, numHashes)

FalsePositiveRate ==
    /\ status = "ready"
    /\ ret' = falsePositiveRate
    /\ lastOp' = "falsePositiveRate"
    /\ lastKey' = ""
    /\ wasPresent' = FALSE
    /\ UNCHANGED <<hashTab, status, error, filterVars, inserted, threadVars>>

\* ------------------------------------------------------------- numBitsSet
NumBitsSet ==
    /\ status = "ready"
    /\ ret' = bitsSet
    /\ lastOp' = "numBitsSet"
    /\ lastKey' = ""
    /\ wasPresent' = FALSE
    /\ UNCHANGED <<hashTab, status, error, filterVars, inserted, threadVars>>

\* ------------------------------------------------------------------- Spec
Next ==
    \/ \E n \in 0..MaxNumKeys, d \in 0..MaxNumHashes, P \in Rates :
          Construct(n, d, P)
    \/ \E k \in Keys : Insert(k)
    \/ \E k \in Keys : Find(k)
    \/ FalsePositiveRate
    \/ NumBitsSet

Spec == Init /\ [][Next]_vars

\* --------------------------------------------------------------- SpecConc
\* A filter constructed with valid arguments, shared by the threads.
InitConc ==
    /\ hashTab \in HashTabs
    /\ status = "ready"
    /\ error = "none"
    /\ numKeys \in 1..MaxNumKeys
    /\ numHashes \in 1..MaxNumHashes
    /\ maxFalsePositive = <<1, 2>>
    /\ numBits = bitsNeeded(numKeys, numHashes, maxFalsePositive).val
    /\ BitVector = [b \in 0..(numBits - 1) |-> 0]
    /\ bitsSet = 0
    /\ noHistory
    /\ noThreads

\* Line 43-45: thread t calls insert(k).
Call(t, k) ==
    /\ pc[t] = "idle"
    /\ key' = [key EXCEPT ![t] = k]
    /\ hashLevel' = [hashLevel EXCEPT ![t] = 0]
    /\ i' = [i EXCEPT ![t] = 0]
    /\ pc' = [pc EXCEPT ![t] = "loop"]
    /\ UNCHANGED <<hashTab, status, error, filterVars, histVars, placeHolder, reg>>

\* Lines 48-52: the next round's hash and index.
Hash(t) ==
    /\ pc[t] = "loop"
    /\ i[t] < numHashes
    /\ LET h == BitHash(key[t], hashLevel[t]) IN
         /\ hashLevel' = [hashLevel EXCEPT ![t] = h]
         /\ placeHolder' = [placeHolder EXCEPT ![t] = h % numBits]
    /\ pc' = [pc EXCEPT ![t] = "test"]
    /\ UNCHANGED <<hashTab, status, error, filterVars, histVars, key, i, reg>>

\* Line 48, range exhausted: insert returns.
Return(t) ==
    /\ pc[t] = "loop"
    /\ i[t] >= numHashes
    /\ pc' = [pc EXCEPT ![t] = "done"]
    /\ inserted' = inserted \cup {key[t]}
    /\ UNCHANGED <<hashTab, status, error, filterVars, lastOp, lastKey,
                   wasPresent, ret, key, i, hashLevel, placeHolder, reg>>

\* Line 55: the bit is read.
Test(t) ==
    /\ pc[t] = "test"
    /\ IF BitVector[placeHolder[t]] = 0
       THEN /\ pc' = [pc EXCEPT ![t] = "set"]
            /\ i' = i
       ELSE /\ pc' = [pc EXCEPT ![t] = "loop"]
            /\ i' = [i EXCEPT ![t] = i[t] + 1]
    /\ UNCHANGED <<hashTab, status, error, filterVars, histVars, key,
                   hashLevel, placeHolder, reg>>

\* Line 57: the bit is written.
SetBit(t) ==
    /\ pc[t] = "set"
    /\ BitVector' = [BitVector EXCEPT ![placeHolder[t]] = 1]
    /\ pc' = [pc EXCEPT ![t] = "load"]
    /\ UNCHANGED <<hashTab, status, error, numKeys, numHashes, maxFalsePositive,
                   numBits, bitsSet, histVars, key, i, hashLevel, placeHolder, reg>>

\* Line 59, `self.__bitsSet += 1`: the attribute is read ...
Load(t) ==
    /\ pc[t] = "load"
    /\ reg' = [reg EXCEPT ![t] = bitsSet]
    /\ pc' = [pc EXCEPT ![t] = "store"]
    /\ UNCHANGED <<hashTab, status, error, filterVars, histVars, key, i,
                   hashLevel, placeHolder>>

\* ... and the sum is written back.
Store(t) ==
    /\ pc[t] = "store"
    /\ bitsSet' = reg[t] + 1
    /\ i' = [i EXCEPT ![t] = i[t] + 1]
    /\ pc' = [pc EXCEPT ![t] = "loop"]
    /\ UNCHANGED <<hashTab, status, error, numKeys, numHashes, maxFalsePositive,
                   numBits, BitVector, histVars, key, hashLevel, placeHolder, reg>>

NextConc ==
    \E t \in Threads :
        \/ \E k \in Keys : Call(t, k)
        \/ Hash(t)
        \/ Return(t)
        \/ Test(t)
        \/ SetBit(t)
        \/ Load(t)
        \/ Store(t)

SpecConc == InitConc /\ [][NextConc]_vars

\* ------------------------------------------------- the chain, as indices
\* The seed after r rounds of the chain of key k: 0, then BitHash(k, seed).
RECURSIVE seedAfter(_, _)
seedAfter(k, r) == IF r = 0 THEN 0 ELSE BitHash(k, seedAfter(k, r - 1))

\* The bit index of round r (1..numHashes) of key k.
chainIndex(k, r) == seedAfter(k, r) % numBits

\* The bit indices addressed by the keys of K.
indices(K) == {chainIndex(k, r) : k \in K, r \in 1..numHashes}

\* The number of 1-bits of a bit vector.
ones(bv) == Cardinality({b \in DOMAIN bv : bv[b] = 1})

\* insert(k) as a function of the state <<bit vector, counter>>.
insertKey(k, st) == insertLoop(k, 0, 0, st[1], st[2])

\* p/q <= r/s for fractions with positive denominators.
RateLeq(x, y) == x[1] * y[2] <= y[1] * x[2]

\* ----------------------------------------------------------------- claims
\* C1: no false negatives. A find of a key whose insert has returned gives
\* True, whatever was inserted in between.
C1_NoFalseNegatives ==
    (lastOp = "find" /\ lastKey \in inserted) => ret = TRUE

\* A find of an inserted key, run after every key has been inserted, on a
\* filter with two rounds whose chain does not sit at seed 1.
C1_Witness ==
    /\ lastOp = "find"
    /\ lastKey \in inserted
    /\ inserted = Keys
    /\ numHashes = 2
    /\ seedAfter(lastKey, 1) # 1
    /\ ret = TRUE

\* C2: bitsSet equals the number of 1-bits of the bit vector in every state.
C2_CountMatchesBits == bitsSet = ones(BitVector)

\* Both keys inserted, with at least one round that met a bit already set.
C2_Witness ==
    /\ lastOp = "insert"
    /\ inserted = Keys
    /\ bitsSet >= 2
    /\ bitsSet < 2 * numHashes
    /\ bitsSet = ones(BitVector)

\* C3: a constructor call with numKeys < 1, numHashes < 1 or maxFalsePositive
\* outside (0,1) fails with InvalidConfiguration and allocates no storage.
invalidConfiguration(n, d, P) == n < 1 \/ d < 1 \/ P[1] <= 0 \/ P[1] >= P[2]

C3_InvalidConfigurationRejected ==
    (status # "new" /\ invalidConfiguration(numKeys, numHashes, maxFalsePositive))
        => (status = "failed" /\ error = "InvalidConfiguration" /\ numBits = 0)

\* C4: bitsSet stays in 0..numBits, no step lowers it, and only insert
\* raises it.
C4_BitCountBounded ==
    /\ [](bitsSet \in 0..numBits)
    /\ [][/\ bitsSet' >= bitsSet
          /\ (bitsSet' > bitsSet => lastOp' = "insert")]_vars

\* An insert has filled a bit vector of at least two bits.
C4_Witness ==
    /\ lastOp = "insert"
    /\ numBits >= 2
    /\ bitsSet = numBits

\* C6: inserting a key that was inserted before changes neither the bit
\* vector nor bitsSet.
C6_InsertIdempotent ==
    [][(lastOp' = "insert" /\ wasPresent')
          => (BitVector' = BitVector /\ bitsSet' = bitsSet)]_vars

\* A second insert of a key has run, on a filter holding both keys.
C6_Witness ==
    /\ lastOp = "insert"
    /\ wasPresent
    /\ inserted = Keys
    /\ bitsSet >= 2

\* C7: find, falsePositiveRate and numBitsSet change no field of the filter.
C7_ReadOnlyOps ==
    [][lastOp' \in {"find", "falsePositiveRate", "numBitsSet"}
          => UNCHANGED filterVars]_vars

\* A find that returned False after its first round met a set bit.
C7_Witness ==
    /\ lastOp = "find"
    /\ ret = FALSE
    /\ numHashes = 2
    /\ BitVector[chainIndex(lastKey, 1)] = 1
    /\ bitsSet < numBits

\* C8: no step of a constructed filter lowers the estimate
\* (bitsSet / numBits) ^ numHashes.
C8_EstimateMonotone ==
    [][(status = "ready" /\ status' = "ready")
          => RateLeq(falsePositiveRate, falsePositiveRate')]_vars

\* falsePositiveRate returned a value strictly between 0 and 1 after inserts.
C8_Witness ==
    /\ lastOp = "falsePositiveRate"
    /\ inserted # {}
    /\ numHashes = 2
    /\ ret[1] > 0
    /\ ret[1] < ret[2]

\* C9: find returns True exactly when every index of the key's chain
\* addresses a 1-bit.
C9_FindExact ==
    lastOp = "find" =>
        (ret = TRUE <=> \A r \in 1..numHashes : BitVector[chainIndex(lastKey, r)] = 1)

\* A find of a key never inserted returned True (a false positive), and the
\* filter is not full.
C9_Witness ==
    /\ lastOp = "find"
    /\ lastKey \notin inserted
    /\ ret = TRUE
    /\ numHashes = 2
    /\ bitsSet < numBits

\* C10: the order of two inserts does not matter, and the state is the one
\* given by the set of keys inserted: the bits their chains address are 1,
\* all others 0, and bitsSet counts them.
C10_OrderIrrelevant ==
    status = "ready" =>
        /\ \A a \in Keys, b \in Keys :
              insertKey(b, insertKey(a, <<BitVector, bitsSet>>))
                  = insertKey(a, insertKey(b, <<BitVector, bitsSet>>))
        /\ BitVector = [b \in 0..(numBits - 1) |->
                           IF b \in indices(inserted) THEN 1 ELSE 0]
        /\ bitsSet = Cardinality(indices(inserted))

\* Both keys inserted, one of them twice, their chains sharing one index
\* and differing in another.
C10_Witness ==
    /\ lastOp = "insert"
    /\ wasPresent
    /\ inserted = Keys
    /\ indices({"ant"}) # indices({"bee"})
    /\ indices({"ant"}) \cap indices({"bee"}) # {}

\* C5: two inserts running concurrently count a bit they both find unset
\* once: when both have returned, bitsSet is the number of 1-bits.
C5_NoDoubleCount ==
    (\A t \in Threads : pc[t] = "done") => bitsSet = ones(BitVector)

====
